---- MODULE Spec2Model ----
(***************************************************************************)
(* The two interactive fruit-salad demos of rust-data-engineering:         *)
(*   linked-list-fruit-salad/src/main.rs  (variant "ll", LinkedList)       *)
(*   vecdeque-fruit-salad/src/main.rs     (variant "vd", VecDeque)         *)
(*                                                                         *)
(* Text is a sequence of one-character strings, so that trim() and         *)
(* parse::<usize>() are computed as the standard library computes them.    *)
(* Console output is the sequence of events `out` printed since the last   *)
(* menu dispatch.  The calls whose io::Result the code unwraps             *)
(* (stdout().flush().unwrap(), read_line(..).expect(..)) succeed or fail   *)
(* as the environment decides; a failure panics.  pc is the place control  *)
(* is at: the top of the menu loop or one of the blocking read_line calls. *)
(***************************************************************************)
EXTENDS Integers, Sequences, FiniteSets, TLC

VARIABLES variant, pc, fruit, fruit_name, choice, prev, op, out, rt,
          deque, deque_choice, deque_out

vars == <<variant, pc, fruit, fruit_name, choice, prev, op, out, rt,
          deque, deque_choice, deque_out>>

\* the deque demo run beside the list demo on the same contents: its queue, the
\* line it read and what it printed (used by SpecPair only)
beside == <<deque, deque_choice, deque_out>>

(***************************************************************************)
(* Bounds of the model (not program constants).                            *)
(***************************************************************************)
\* adds are taken only while the sequence is shorter than this
MaxLen == 7
\* adds are taken only while the sequence holds fewer fruits than this that the
\* user added
MaxAdded == 1
\* parsed positions are kept exactly below this value and saturate at it
PosCap == 12
\* longest input of the shuffle applied to arbitrary sequences
MaxShuffleLen == 4

\* longest sequence the two demos are run on side by side
MaxPairLen == 4

(***************************************************************************)
(* Text                                                                    *)
(***************************************************************************)
Arbutus == <<"A","r","b","u","t","u","s">>
Loquat == <<"L","o","q","u","a","t">>
StrawberryTreeBerry ==
  <<"S","t","r","a","w","b","e","r","r","y"," ","T","r","e","e"," ","B","e","r","r","y">>
Pomegranate == <<"P","o","m","e","g","r","a","n","a","t","e">>
Fig == <<"F","i","g">>
Cherry == <<"C","h","e","r","r","y">>

WhiteSpace == {" ", "\t", "\n", "\r"}

RECURSIVE TrimStart(_)
TrimStart(s) ==
  IF s # <<>> /\ Head(s) \in WhiteSpace THEN TrimStart(Tail(s)) ELSE s

RECURSIVE TrimEnd(_)
TrimEnd(s) ==
  IF s # <<>> /\ s[Len(s)] \in WhiteSpace
  THEN TrimEnd(SubSeq(s, 1, Len(s) - 1))
  ELSE s

\* str::trim
Trim(s) == TrimEnd(TrimStart(s))

DigitChars == {"0","1","2","3","4","5","6","7","8","9"}

DigitVal(c) ==
  CASE c = "0" -> 0 [] c = "1" -> 1 [] c = "2" -> 2 [] c = "3" -> 3
    [] c = "4" -> 4 [] c = "5" -> 5 [] c = "6" -> 6 [] c = "7" -> 7
    [] c = "8" -> 8 [] c = "9" -> 9

\* usize::MAX = 2^64 - 1 on the 64-bit targets the demos are built for
UsizeMaxDigits ==
  <<"1","8","4","4","6","7","4","4","0","7","3","7","0","9","5","5","1","6","1","5">>

RECURSIVE StripZeros(_)
StripZeros(d) ==
  IF d # <<>> /\ Head(d) = "0" THEN StripZeros(Tail(d)) ELSE d

RECURSIVE DigitsGreater(_, _)
\* a > b for two digit strings of the same length
DigitsGreater(a, b) ==
  IF a = <<>> THEN FALSE
  ELSE IF DigitVal(Head(a)) # DigitVal(Head(b))
       THEN DigitVal(Head(a)) > DigitVal(Head(b))
       ELSE DigitsGreater(Tail(a), Tail(b))

\* the checked_mul / checked_add of the digit loop fails: the value does not fit
Overflows(d) ==
  LET z == StripZeros(d) IN
  \/ Len(z) > Len(UsizeMaxDigits)
  \/ Len(z) = Len(UsizeMaxDigits) /\ DigitsGreater(z, UsizeMaxDigits)

RECURSIVE Accumulate(_, _)
\* result = result * 10 + digit, kept exactly below PosCap
Accumulate(acc, d) ==
  IF d = <<>> THEN acc
  ELSE LET n == acc * 10 + DigitVal(Head(d))
       IN Accumulate(IF n > PosCap THEN PosCap ELSE n, Tail(d))

ParseErr == [ok |-> FALSE, val |-> 0]

\* str::parse::<usize>: an optional '+', then one or more decimal digits;
\* a '-' is not a digit of an unsigned type
ParseUsize(s) ==
  IF s = <<>> THEN ParseErr
  ELSE IF Len(s) = 1 /\ Head(s) \in {"+", "-"} THEN ParseErr
  ELSE LET d == IF Head(s) = "+" THEN Tail(s) ELSE s IN
       IF \E i \in 1..Len(d) : d[i] \notin DigitChars THEN ParseErr
       ELSE IF Overflows(d) THEN ParseErr
       ELSE [ok |-> TRUE, val |-> Accumulate(0, d)]

(***************************************************************************)
(* The containers: LinkedList<String> and VecDeque<String> as sequences,   *)
(* front first.                                                            *)
(***************************************************************************)
\* mutant of PushFront: the element goes to the back
PushFront_AtBack(l, x) == Append(l, x)

PushFront(l, x) == <<x>> \o l

PushBack(l, x) == Append(l, x)

NoneOf(l) == [some |-> FALSE, val |-> <<>>, rest |-> l]

PopFront(l) ==
  IF l = <<>> THEN NoneOf(l)
  ELSE [some |-> TRUE, val |-> Head(l), rest |-> Tail(l)]

PopBack(l) ==
  IF l = <<>> THEN NoneOf(l)
  ELSE [some |-> TRUE, val |-> l[Len(l)], rest |-> SubSeq(l, 1, Len(l) - 1)]

\* LinkedList::split_off(at): the list keeps [0, at), the result is [at, len)
SplitOffKept(l, at) == SubSeq(l, 1, at)

SplitOffBack(l, at) == SubSeq(l, at + 1, Len(l))

\* LinkedList::append
ListAppend(l, other) == l \o other

(***************************************************************************)
(* Console events                                                          *)
(***************************************************************************)
Ev(msg, name, pos) == [msg |-> msg, name |-> name, pos |-> pos]

Msg(msg) == Ev(msg, <<>>, 0)

\* print_fruit_salad: the linked-list demo prints a total, the deque demo none
print_fruit_salad(l, v) ==
  <<Msg("salad_header")>> \o
  IF l = <<>> THEN <<Msg("empty_marker")>>
  ELSE [i \in 1..Len(l) |->
          IF (i - 1) # Len(l) - 1
          THEN Ev("item_comma", l[i], 0)
          ELSE Ev("item_last", l[i], 0)]
       \o (IF v = "ll" THEN <<Ev("total", <<>>, Len(l))>> ELSE <<>>)

(***************************************************************************)
(* Shuffle and choose, from rand::seq::SliceRandom                         *)
(***************************************************************************)
\* mutant of Swap: the second assignment of the exchange is missing
Swap_Overwrite(v, i, j) == [v EXCEPT ![i + 1] = v[j + 1]]

\* slice::swap, 0-based
Swap(v, i, j) == [v EXCEPT ![i + 1] = v[j + 1], ![j + 1] = v[i + 1]]

\* what gen_index(rng, i + 1) may return for each i of the shuffle's loop
GenIndex(n) == {g \in [1..(n - 1) -> 0..(n - 1)] : \A i \in 1..(n - 1) : g[i] <= i}

RECURSIVE ShuffleFrom(_, _, _)
\* for i in (1..len).rev() { swap(i, gen_index(rng, i + 1)) }
ShuffleFrom(v, i, g) ==
  IF i < 1 THEN v ELSE ShuffleFrom(Swap(v, i, g[i]), i - 1, g)

\* fruit.into_iter().collect(), shuffle, fruit_vec.into_iter().collect()
Shuffled(l, g) == ShuffleFrom(l, Len(l) - 1, g)

\* mutant of Choose: the element is taken out of the list
Choose_Taking(l, i) ==
  [list |-> SubSeq(l, 1, i) \o SubSeq(l, i + 2, Len(l)), val |-> l[i + 1]]

\* fruit.iter().collect::<Vec<_>>().choose(&mut rng) with index i drawn by rng:
\* the list as it is left, and the element reported
Choose(l, i) == [list |-> l, val |-> l[i + 1]]

(***************************************************************************)
(* add_fruit and remove_fruit, after the position or end was read          *)
(***************************************************************************)
\* an outcome of the code after the read: the list, what was printed, and
\* whether split_off's assert!(at <= len) failed
Outcome(l, evs) == [list |-> l, evs |-> evs, panics |-> FALSE]

SplitOffPanics(l) == [list |-> l, evs |-> <<>>, panics |-> TRUE]

\* the middle branch of add_fruit: split_off, push_back, append
InsertBySplit(l, position, name) ==
  IF position > Len(l) THEN SplitOffPanics(l)
  ELSE LET back == SplitOffBack(l, position)
           kept == SplitOffKept(l, position)
       IN Outcome(ListAppend(PushBack(kept, name), back),
                  <<Ev("added_at", name, position)>>)

\* mutant of LLInsert: the halves are rejoined before the push_back
LLInsert_PushAfterAppend(l, position, name) ==
  IF position = 0
  THEN Outcome(PushFront(l, name), <<Ev("added_front", name, 0)>>)
  ELSE IF position >= Len(l)
  THEN Outcome(PushBack(l, name), <<Ev("added_back", name, 0)>>)
  ELSE LET back == SplitOffBack(l, position)
           kept == SplitOffKept(l, position)
       IN Outcome(PushBack(ListAppend(kept, back), name),
                  <<Ev("added_at", name, position)>>)

\* mutant of LLInsert: positions past the end are not sent to the back
LLInsert_NoBackClamp(l, position, name) ==
  IF position = 0
  THEN Outcome(PushFront(l, name), <<Ev("added_front", name, 0)>>)
  ELSE InsertBySplit(l, position, name)

\* linked list: position == 0, position >= len, or split_off / push_back / append
LLInsert(l, position, name) ==
  IF position = 0
  THEN Outcome(PushFront(l, name), <<Ev("added_front", name, 0)>>)
  ELSE IF position >= Len(l)
  THEN Outcome(PushBack(l, name), <<Ev("added_back", name, 0)>>)
  ELSE InsertBySplit(l, position, name)

\* mutant of LLAddPosition: a position that does not parse is taken as 0
LLAddPosition_DefaultZero(l, line, name) ==
  LET p == ParseUsize(Trim(line)) IN
  LLInsert(l, IF p.ok THEN p.val ELSE 0, name)

\* if let Ok(position) = choice.trim().parse::<usize>() { .. } else { Invalid }
LLAddPosition(l, line, name) ==
  LET p == ParseUsize(Trim(line)) IN
  IF p.ok THEN LLInsert(l, p.val, name)
  ELSE Outcome(l, <<Msg("invalid_position")>>)

\* mutant of VDAddEnd: the two ends are exchanged
VDAddEnd_EndsSwapped(l, line, name) ==
  IF Trim(line) = <<"1">>
  THEN Outcome(PushBack(l, name), <<Ev("added_back", name, 0)>>)
  ELSE IF Trim(line) = <<"2">>
  THEN Outcome(PushFront(l, name), <<Ev("added_front", name, 0)>>)
  ELSE Outcome(l, <<Msg("invalid_choice")>>)

\* deque: match choice.trim() { "1" => push_front, "2" => push_back, _ => Invalid }
VDAddEnd(l, line, name) ==
  IF Trim(line) = <<"1">>
  THEN Outcome(PushFront(l, name), <<Ev("added_front", name, 0)>>)
  ELSE IF Trim(line) = <<"2">>
  THEN Outcome(PushBack(l, name), <<Ev("added_back", name, 0)>>)
  ELSE Outcome(l, <<Msg("invalid_choice")>>)

\* if let Some(removed) = .. { println!(..) }
Removed(r, msg, position) ==
  IF r.some THEN <<Ev(msg, r.val, position)>> ELSE <<>>

\* the middle branch of remove_fruit: split_off, pop_front, append
RemoveBySplit(l, position) ==
  IF position > Len(l) THEN SplitOffPanics(l)
  ELSE LET back == SplitOffBack(l, position)
           kept == SplitOffKept(l, position)
           r == PopFront(back)
       IN Outcome(IF r.some THEN ListAppend(kept, r.rest) ELSE kept,
                  Removed(r, "removed_at", position))

\* mutant of LLRemove: the middle branch pops the back half's last element
LLRemove_PopsBackOfHalf(l, position) ==
  IF position = 0
  THEN LET r == PopFront(l)
       IN Outcome(r.rest, Removed(r, "removed_front", 0))
  ELSE IF position >= Len(l) - 1
  THEN LET r == PopBack(l)
       IN Outcome(r.rest, Removed(r, "removed_back", 0))
  ELSE LET back == SplitOffBack(l, position)
           kept == SplitOffKept(l, position)
           r == PopBack(back)
       IN Outcome(IF r.some THEN ListAppend(kept, r.rest) ELSE kept,
                  Removed(r, "removed_at", position))

\* mutant of LLRemove: only positions from the length on are sent to the back
LLRemove_BackClampAtLen(l, position) ==
  IF position = 0
  THEN LET r == PopFront(l)
       IN Outcome(r.rest, Removed(r, "removed_front", 0))
  ELSE IF position >= Len(l)
  THEN LET r == PopBack(l)
       IN Outcome(r.rest, Removed(r, "removed_back", 0))
  ELSE RemoveBySplit(l, position)

\* mutant of LLRemove: positions past the end are not sent to the back
LLRemove_NoBackClamp(l, position) ==
  IF position = 0
  THEN LET r == PopFront(l)
       IN Outcome(r.rest, Removed(r, "removed_front", 0))
  ELSE RemoveBySplit(l, position)

\* linked list: position == 0, position >= len - 1, or split_off / pop_front / append
LLRemove(l, position) ==
  IF position = 0
  THEN LET r == PopFront(l)
       IN Outcome(r.rest, Removed(r, "removed_front", 0))
  ELSE IF position >= Len(l) - 1
  THEN LET r == PopBack(l)
       IN Outcome(r.rest, Removed(r, "removed_back", 0))
  ELSE RemoveBySplit(l, position)

LLRemovePosition(l, line) ==
  LET p == ParseUsize(Trim(line)) IN
  IF p.ok THEN LLRemove(l, p.val)
  ELSE Outcome(l, <<Msg("invalid_position")>>)

\* mutant of VDRemoveEnd: the two ends are exchanged
VDRemoveEnd_EndsSwapped(l, line) ==
  IF Trim(line) = <<"1">>
  THEN LET r == PopBack(l)
       IN Outcome(r.rest, Removed(r, "removed_back", 0))
  ELSE IF Trim(line) = <<"2">>
  THEN LET r == PopFront(l)
       IN Outcome(r.rest, Removed(r, "removed_front", 0))
  ELSE Outcome(l, <<Msg("invalid_choice")>>)

\* deque: match choice.trim() { "1" => pop_front, "2" => pop_back, _ => Invalid }
VDRemoveEnd(l, line) ==
  IF Trim(line) = <<"1">>
  THEN LET r == PopFront(l)
       IN Outcome(r.rest, Removed(r, "removed_front", 0))
  ELSE IF Trim(line) = <<"2">>
  THEN LET r == PopBack(l)
       IN Outcome(r.rest, Removed(r, "removed_back", 0))
  ELSE Outcome(l, <<Msg("invalid_choice")>>)

\* mutant of NameIsEmpty: every name is let through
NameIsEmpty_Never(name) == FALSE

\* fruit_name.is_empty() in add_fruit
NameIsEmpty(name) == name = <<>>

\* mutant of IsEmpty: the emptiness check is missing
IsEmpty_Never(l) == FALSE

\* fruit.is_empty() at the head of remove_fruit and pick_random_fruit
IsEmpty(l) == l = <<>>

(***************************************************************************)
(* What the user may type, and what the environment may do to the console  *)
(***************************************************************************)
Line(c) == <<c, "\n">>

\* the menu prompt: the four choices, padding, other text, end of input
MenuLines ==
  {Line("1"), Line("2"), Line("3"), Line("4"), <<" ", "4", " ", "\n">>,
   Line("7"), <<>>}

\* the fruit-name prompt: a name, the name padded, blank lines, end of input
NameLines ==
  {<<"K","i","w","i","\n">>, <<" ","K","i","w","i"," ","\r","\n">>, <<"\n">>,
   <<" ","\t","\n">>, <<>>}

\* the digits 0 .. MaxLen + 1, one per line
PositionDigits == {c \in DigitChars : DigitVal(c) <= MaxLen + 1}

\* the position / end prompt: every index of the sequence and beyond, padded,
\* signed, not a number, end of input, usize::MAX and usize::MAX + 1
PositionLines ==
  {Line(c) : c \in PositionDigits} \cup
  {<<" ", "2", " ", "\n">>, <<"+", "1", "\n">>, <<"-", "1", "\n">>,
   <<"x", "\n">>, <<>>,
   UsizeMaxDigits \o <<"\n">>,
   SubSeq(UsizeMaxDigits, 1, 19) \o <<"6", "\n">>}

\* the fruits main puts into the salad before the menu
StartupFruits == {Arbutus, Loquat, StrawberryTreeBerry, Pomegranate, Fig, Cherry}

\* how many fruits of the sequence came from the add prompt
Added(l) == Cardinality({i \in 1..Len(l) : l[i] \notin StartupFruits})

\* how the program was compiled: with or without overflow checks
Builds == {"debug", "release"}

\* fruit.len() - 1 in usize: below zero, a debug build panics and a release
\* build wraps to usize::MAX, so that the loop over 1..len - 1 of the remove
\* prompt prints 2^64 - 2 lines
LenMinusOneOverflows(l) == Len(l) = 0

\* the outcome of a fallible console call
IoResults == {"ok", "err"}

NoRoundTrip == [phase |-> "idle", s |-> <<>>, v |-> <<>>]

\* the request is for the front: position 0 of the list, end "1" of the deque
FrontRequested(v, line) ==
  IF v = "ll"
  THEN ParseUsize(Trim(line)).ok /\ ParseUsize(Trim(line)).val = 0
  ELSE Trim(line) = <<"1">>

(***************************************************************************)
(* main, up to the menu loop                                               *)
(***************************************************************************)
\* let mut fruit = LinkedList::new() / VecDeque::new()
Init ==
  /\ variant \in {"ll", "vd"}
  /\ pc = "start"
  /\ fruit = <<>>
  /\ fruit_name = <<>>
  /\ choice = <<>>
  /\ prev = <<>>
  /\ op = "startup"
  /\ out = <<>>
  /\ rt = NoRoundTrip
  /\ deque = <<>>
  /\ deque_choice = <<>>
  /\ deque_out = <<>>

\* three push_back, the banner and the first display
Populate ==
  /\ pc = "start"
  /\ fruit' = PushBack(PushBack(PushBack(fruit, Arbutus), Loquat), StrawberryTreeBerry)
  /\ out' = <<Msg("banner")>> \o print_fruit_salad(fruit', variant)
  /\ pc' = "shuffle"
  /\ UNCHANGED <<variant, fruit_name, choice, prev, op, rt>>
  /\ UNCHANGED beside

\* fruit_vec.shuffle(&mut rng) and the conversions around it
ShuffleFruit ==
  /\ pc = "shuffle"
  /\ \E g \in GenIndex(Len(fruit)) : fruit' = Shuffled(fruit, g)
  /\ prev' = fruit
  /\ op' = "shuffle"
  /\ out' = <<Msg("shuffled")>> \o print_fruit_salad(fruit', variant)
  /\ pc' = "shuffled"
  /\ UNCHANGED <<variant, fruit_name, choice, rt>>
  /\ UNCHANGED beside

\* push_front Pomegranate, push_back Fig, push_back Cherry
AddEnds ==
  /\ pc = "shuffled"
  /\ fruit' = PushBack(PushBack(PushFront(fruit, Pomegranate), Fig), Cherry)
  /\ prev' = fruit
  /\ op' = "startup"
  /\ out' = <<Msg("added_ends")>> \o print_fruit_salad(fruit', variant)
  /\ pc' = "menu"
  /\ UNCHANGED <<variant, fruit_name, choice, rt>>
  /\ UNCHANGED beside

(***************************************************************************)
(* The menu loop: one action per way one pass of the loop can go, up to    *)
(* the next read_line or the return to the top of the loop                 *)
(***************************************************************************)
\* a panic of unwrap() / expect() inside operation o
Panic(o, evs, cause) ==
  /\ pc' = "panicked"
  /\ op' = o
  /\ out' = evs \o <<Msg(cause)>>

\* the menu's own flush().unwrap() or read_line().expect() fails
MenuPanic ==
  /\ pc = "menu"
  /\ \E cause \in {"panic_flush", "panic_read"} : Panic("menu", <<Msg("menu")>>, cause)
  /\ prev' = fruit
  /\ rt' = NoRoundTrip
  /\ UNCHANGED <<variant, fruit, choice>>
  /\ fruit_name' = <<>>
  /\ UNCHANGED beside

\* "1" => add_fruit: the name prompt and its flush
MenuAdd ==
  /\ pc = "menu"
  /\ Len(fruit) < MaxLen
  /\ Added(fruit) < MaxAdded
  /\ \E line \in MenuLines, flush \in IoResults :
       /\ Trim(line) = <<"1">>
       /\ choice' = line
       /\ IF flush = "ok"
          THEN /\ pc' = "add_name"
               /\ op' = "add"
               /\ out' = <<Msg("menu"), Msg("add_header"), Msg("prompt_name")>>
          ELSE Panic("add", <<Msg("menu"), Msg("add_header"), Msg("prompt_name")>>,
                     "panic_flush")
  /\ prev' = fruit
  /\ rt' = NoRoundTrip
  /\ UNCHANGED <<variant, fruit>>
  /\ fruit_name' = <<>>
  /\ UNCHANGED beside

\* add_fruit after the name prompt: read, trim, reject an empty name, else
\* the position / end prompt and its flush
AddName ==
  /\ pc = "add_name"
  /\ \E line \in NameLines, read \in IoResults, flush \in IoResults :
       IF read = "err"
       THEN /\ Panic("add", out, "panic_read")
            /\ UNCHANGED <<fruit_name>>
       ELSE IF NameIsEmpty(Trim(line))
       THEN /\ fruit_name' = Trim(line)
            /\ pc' = "menu"
            /\ out' = out \o <<Msg("name_empty")>>
            /\ UNCHANGED op
       ELSE /\ fruit_name' = Trim(line)
            /\ IF flush = "ok"
               THEN /\ pc' = "add_pos"
                    /\ out' = out \o <<Ev("prompt_position", <<>>, Len(fruit))>>
                    /\ UNCHANGED op
               ELSE Panic("add", out \o <<Ev("prompt_position", <<>>, Len(fruit))>>,
                          "panic_flush")
  /\ UNCHANGED <<variant, fruit, choice, prev, rt>>
  /\ UNCHANGED beside

\* add_fruit after the position / end prompt: read, insert, display
AddPosition ==
  /\ pc = "add_pos"
  /\ \E line \in PositionLines, read \in IoResults :
       IF read = "err"
       THEN /\ Panic("add", out, "panic_read")
            /\ UNCHANGED <<fruit, choice, rt>>
       ELSE LET r == IF variant = "ll"
                     THEN LLAddPosition(fruit, line, fruit_name)
                     ELSE VDAddEnd(fruit, line, fruit_name)
            IN /\ fruit' = r.list
               /\ choice' = line
               /\ IF r.panics
                  THEN /\ Panic("add", out, "panic_split_off")
                       /\ UNCHANGED rt
                  ELSE /\ out' = out \o r.evs \o print_fruit_salad(r.list, variant)
                       /\ pc' = "menu"
                       /\ rt' = IF FrontRequested(variant, line)
                                THEN [phase |-> "added", s |-> fruit, v |-> fruit_name]
                                ELSE NoRoundTrip
                       /\ UNCHANGED op
  /\ UNCHANGED <<variant, fruit_name, prev>>
  /\ UNCHANGED beside

\* "2" => remove_fruit: the emptiness check, then the prompt (whose lines the
\* list demo counts up to len - 1) and its flush
MenuRemove ==
  /\ pc = "menu"
  /\ \E line \in MenuLines, flush \in IoResults :
       /\ Trim(line) = <<"2">>
       /\ choice' = line
       /\ IF IsEmpty(fruit)
          THEN /\ pc' = "menu"
               /\ op' = "remove"
               /\ out' = <<Msg("menu"), Msg("remove_header"), Msg("cannot_remove_empty")>>
          ELSE IF variant = "ll" /\ LenMinusOneOverflows(fruit)
          THEN \E build \in Builds :
                 IF build = "debug"
                 THEN Panic("remove", <<Msg("menu"), Msg("remove_header")>>,
                            "panic_underflow")
                 ELSE /\ pc' = "diverged"
                      /\ op' = "remove"
                      /\ out' = <<Msg("menu"), Msg("remove_header"),
                                  Msg("endless_prompt")>>
          ELSE IF flush = "ok"
          THEN /\ pc' = "rem_pos"
               /\ op' = "remove"
               /\ out' = <<Msg("menu"), Msg("remove_header"),
                           Ev("prompt_position", <<>>, Len(fruit) - 1)>>
          ELSE Panic("remove",
                     <<Msg("menu"), Msg("remove_header"),
                       Ev("prompt_position", <<>>, Len(fruit) - 1)>>,
                     "panic_flush")
  /\ prev' = fruit
  /\ rt' = IF rt.phase = "added" THEN rt ELSE NoRoundTrip
  /\ UNCHANGED <<variant, fruit>>
  /\ fruit_name' = <<>>
  /\ UNCHANGED beside

\* remove_fruit after the prompt: read, remove, display
RemovePosition ==
  /\ pc = "rem_pos"
  /\ \E line \in PositionLines, read \in IoResults :
       IF read = "err"
       THEN /\ Panic("remove", out, "panic_read")
            /\ UNCHANGED <<fruit, choice, rt>>
       ELSE LET r == IF variant = "ll"
                     THEN LLRemovePosition(fruit, line)
                     ELSE VDRemoveEnd(fruit, line)
            IN /\ fruit' = r.list
               /\ choice' = line
               /\ IF r.panics
                  THEN /\ Panic("remove", out, "panic_split_off")
                       /\ UNCHANGED rt
                  ELSE /\ out' = out \o r.evs \o print_fruit_salad(r.list, variant)
                       /\ pc' = "menu"
                       /\ rt' = IF rt.phase = "added" /\ FrontRequested(variant, line)
                                THEN [rt EXCEPT !.phase = "removed"]
                                ELSE NoRoundTrip
                       /\ UNCHANGED op
  /\ UNCHANGED <<variant, fruit_name, prev>>
  /\ UNCHANGED beside

\* "3" => pick_random_fruit
MenuPick ==
  /\ pc = "menu"
  /\ \E line \in MenuLines :
       /\ Trim(line) = <<"3">>
       /\ choice' = line
  /\ IF IsEmpty(fruit)
     THEN /\ out' = <<Msg("menu"), Msg("pick_header"), Msg("cannot_pick_empty")>>
          /\ UNCHANGED fruit
     ELSE \E i \in 0..(Len(fruit) - 1) :
            LET r == Choose(fruit, i)
            IN /\ fruit' = r.list
               /\ out' = <<Msg("menu"), Msg("pick_header"), Ev("picked", r.val, 0)>>
  /\ pc' = "menu"
  /\ op' = "pick"
  /\ prev' = fruit
  /\ rt' = NoRoundTrip
  /\ UNCHANGED <<variant>>
  /\ fruit_name' = <<>>
  /\ UNCHANGED beside

\* "4" => the final display and break
MenuExit ==
  /\ pc = "menu"
  /\ \E line \in MenuLines :
       /\ Trim(line) = <<"4">>
       /\ choice' = line
  /\ out' = <<Msg("menu"), Msg("final")>> \o print_fruit_salad(fruit, variant)
           \o <<Msg("goodbye")>>
  /\ pc' = "exited"
  /\ op' = "exit"
  /\ prev' = fruit
  /\ rt' = NoRoundTrip
  /\ UNCHANGED <<variant, fruit>>
  /\ fruit_name' = <<>>
  /\ UNCHANGED beside

\* _ => Invalid choice
MenuInvalid ==
  /\ pc = "menu"
  /\ \E line \in MenuLines :
       /\ Trim(line) \notin {<<"1">>, <<"2">>, <<"3">>, <<"4">>}
       /\ choice' = line
  /\ out' = <<Msg("menu"), Msg("invalid_menu_choice")>>
  /\ pc' = "menu"
  /\ op' = "invalid"
  /\ prev' = fruit
  /\ rt' = NoRoundTrip
  /\ UNCHANGED <<variant, fruit>>
  /\ fruit_name' = <<>>
  /\ UNCHANGED beside

Next ==
  \/ Populate
  \/ ShuffleFruit
  \/ AddEnds
  \/ MenuPanic
  \/ MenuAdd
  \/ AddName
  \/ AddPosition
  \/ MenuRemove
  \/ RemovePosition
  \/ MenuPick
  \/ MenuExit
  \/ MenuInvalid

Spec == Init /\ [][Next]_vars

(***************************************************************************)
(* The shuffle applied to any sequence of the initial fruits               *)
(***************************************************************************)
RECURSIVE SeqsUpTo(_, _)
SeqsUpTo(S, n) ==
  IF n = 0 THEN {<<>>}
  ELSE LET shorter == SeqsUpTo(S, n - 1)
       IN shorter \cup {Append(q, x) : q \in shorter, x \in S}

InitShuffle ==
  /\ variant \in {"ll", "vd"}
  /\ pc = "shuffle"
  /\ fruit \in SeqsUpTo({Arbutus, Loquat, StrawberryTreeBerry}, MaxShuffleLen)
  /\ fruit_name = <<>>
  /\ choice = <<>>
  /\ prev = <<>>
  /\ op = "startup"
  /\ out = <<>>
  /\ rt = NoRoundTrip
  /\ deque = <<>>
  /\ deque_choice = <<>>
  /\ deque_out = <<>>

NextShuffle == ShuffleFruit

SpecShuffle == InitShuffle /\ [][NextShuffle]_vars

(***************************************************************************)
(* The two demos side by side: the position / end step of add_fruit and of *)
(* remove_fruit of each, applied to the same contents, each demo reading   *)
(* its own line                                                            *)
(***************************************************************************)
InitPair ==
  /\ variant = "ll"
  /\ pc = "pair"
  /\ fruit \in SeqsUpTo({Arbutus, Loquat}, MaxPairLen)
  /\ deque = fruit
  /\ fruit_name = <<>>
  /\ choice = <<>>
  /\ deque_choice = <<>>
  /\ prev = <<>>
  /\ op = "startup"
  /\ out = <<>>
  /\ deque_out = <<>>
  /\ rt = NoRoundTrip

\* the names add_fruit lets through to the position prompt
PairNames == {Trim(l) : l \in NameLines} \ {<<>>}

PairAdd ==
  /\ pc = "pair"
  /\ fruit = deque
  /\ Len(fruit) < MaxPairLen
  /\ \E name \in PairNames, lineLL \in PositionLines, lineVD \in PositionLines :
       LET a == LLAddPosition(fruit, lineLL, name)
           b == VDAddEnd(deque, lineVD, name)
       IN /\ fruit_name' = name
          /\ choice' = lineLL
          /\ deque_choice' = lineVD
          /\ fruit' = a.list
          /\ deque' = b.list
          /\ out' = a.evs
          /\ deque_out' = b.evs
          /\ pc' = IF a.panics \/ b.panics THEN "panicked" ELSE "paired"
  /\ prev' = fruit
  /\ op' = "add"
  /\ UNCHANGED <<variant, rt>>

PairRemove ==
  /\ pc = "pair"
  /\ fruit = deque
  /\ ~IsEmpty(fruit)
  /\ \E lineLL \in PositionLines, lineVD \in PositionLines :
       LET a == LLRemovePosition(fruit, lineLL)
           b == VDRemoveEnd(deque, lineVD)
       IN /\ choice' = lineLL
          /\ deque_choice' = lineVD
          /\ fruit' = a.list
          /\ deque' = b.list
          /\ out' = a.evs
          /\ deque_out' = b.evs
          /\ pc' = IF a.panics \/ b.panics THEN "panicked" ELSE "paired"
  /\ prev' = fruit
  /\ op' = "remove"
  /\ UNCHANGED <<variant, fruit_name, rt>>

\* both demos are back at their menus with the same contents: the next request
PairResume ==
  /\ pc = "paired"
  /\ fruit = deque
  /\ pc' = "pair"
  /\ fruit_name' = <<>>
  /\ choice' = <<>>
  /\ deque_choice' = <<>>
  /\ prev' = <<>>
  /\ op' = "startup"
  /\ out' = <<>>
  /\ deque_out' = <<>>
  /\ UNCHANGED <<variant, fruit, deque, rt>>

NextPair ==
  \/ PairAdd
  \/ PairRemove
  \/ PairResume

SpecPair == InitPair /\ [][NextPair]_vars

(***************************************************************************)
(* Reading the state                                                       *)
(***************************************************************************)
HasEv(m) == \E i \in 1..Len(out) : out[i].msg = m

EvsOf(ms) == SelectSeq(out, LAMBDA e : e.msg \in ms)

RemovedMsgs == {"removed_front", "removed_back", "removed_at"}

AddedMsgs == {"added_front", "added_back", "added_at"}

\* add_fruit read a position / end and returned to the menu
AddDone == pc = "menu" /\ op = "add" /\ ~HasEv("name_empty")

\* remove_fruit read a position / end and returned to the menu
RemoveDone == pc = "menu" /\ op = "remove" /\ ~HasEv("cannot_remove_empty")

\* the text typed at the position prompt, as decimal notation
Typed == Trim(choice)

DigitsOnly(d) == d # <<>> /\ \A i \in 1..Len(d) : d[i] \in DigitChars

\* an unsigned decimal: digits, or '+' and digits
IsUnsignedText(t) ==
  t # <<>> /\ DigitsOnly(IF Head(t) = "+" THEN Tail(t) ELSE t)

\* a negative decimal: '-' and digits
IsNegativeText(t) == t # <<>> /\ Head(t) = "-" /\ DigitsOnly(Tail(t))

IsIntegerText(t) == IsUnsignedText(t) \/ IsNegativeText(t)

\* the digits of a decimal
DigitsOfText(t) == IF Head(t) \in {"+", "-"} THEN Tail(t) ELSE t

\* the magnitude of a decimal, exact below PosCap
Magnitude(t) == Accumulate(0, DigitsOfText(t))

\* 0 <= value <= 2^64 - 1
FitsUsize(t) == IsUnsignedText(t) /\ ~Overflows(DigitsOfText(t))

\* s with x put at 0-based index p
InsertedAt(s, p, x) == SubSeq(s, 1, p) \o <<x>> \o SubSeq(s, p + 1, Len(s))

\* s without its element at 0-based index p
WithoutAt(s, p) == SubSeq(s, 1, p) \o SubSeq(s, p + 2, Len(s))

(***************************************************************************)
(* C1: in the linked-list demo, adding v at a position p with              *)
(* 0 < p < length(s) yields s[0..p-1], v, s[p..]: v is the element at      *)
(* index p, the elements before p are untouched, those from p on move back *)
(* by one, and the length grows by exactly 1.                              *)
(***************************************************************************)
C1_InsertInsideList ==
  (/\ variant = "ll"
   /\ AddDone
   /\ FitsUsize(Typed)
   /\ 0 < Magnitude(Typed)
   /\ Magnitude(Typed) < Len(prev))
  => LET p == Magnitude(Typed) IN
     /\ fruit = InsertedAt(prev, p, fruit_name)
     /\ Len(fruit) = Len(prev) + 1
     /\ fruit[p + 1] = fruit_name
     /\ \A i \in 1..p : fruit[i] = prev[i]
     /\ \A i \in (p + 1)..Len(prev) : fruit[i + 1] = prev[i]

C1_Witness ==
  /\ variant = "ll"
  /\ AddDone
  /\ FitsUsize(Typed)
  /\ Magnitude(Typed) = 2
  /\ Len(prev) = 5
  /\ fruit[3] = fruit_name

(***************************************************************************)
(* C2: in the linked-list demo, removing at a position p with              *)
(* 0 <= p <= length(s) - 1 from a non-empty s reports exactly s[p] as      *)
(* removed, decreases the length by exactly 1 and keeps the other elements *)
(* in their order.                                                         *)
(***************************************************************************)
C2_RemoveInsideList ==
  (/\ variant = "ll"
   /\ RemoveDone
   /\ prev # <<>>
   /\ FitsUsize(Typed)
   /\ Magnitude(Typed) <= Len(prev) - 1)
  => LET p == Magnitude(Typed)
         reported == EvsOf(RemovedMsgs)
     IN /\ Len(reported) = 1
        /\ reported[1].name = prev[p + 1]
        /\ Len(fruit) = Len(prev) - 1
        /\ fruit = WithoutAt(prev, p)

C2_Witness ==
  /\ variant = "ll"
  /\ RemoveDone
  /\ FitsUsize(Typed)
  /\ Magnitude(Typed) = 2
  /\ Len(prev) = 5
  /\ HasEv("removed_at")

(***************************************************************************)
(* C3: in both demos, remove and pick-random on an empty sequence end with *)
(* the empty-collection message: no position or end is requested, nothing  *)
(* is removed or picked, the sequence stays empty and control is back at   *)
(* the menu.                                                               *)
(***************************************************************************)
C3_EmptyCollection ==
  /\ pc = "rem_pos" => fruit # <<>>
  /\ (op = "remove" /\ prev = <<>>)
     => /\ pc = "menu"
        /\ fruit = <<>>
        /\ out = <<Msg("menu"), Msg("remove_header"), Msg("cannot_remove_empty")>>
  /\ (op = "pick" /\ prev = <<>>)
     => /\ pc = "menu"
        /\ fruit = <<>>
        /\ out = <<Msg("menu"), Msg("pick_header"), Msg("cannot_pick_empty")>>

C3_Witness ==
  /\ op = "remove"
  /\ prev = <<>>
  /\ HasEv("cannot_remove_empty")

(***************************************************************************)
(* Integer positions as the specification reads them                       *)
(***************************************************************************)
\* the integer written by t is <= 0
DenotesAtMostZero(t) == IsNegativeText(t) \/ Magnitude(t) = 0

\* the integer written by t is >= n, for 0 <= n <= PosCap
DenotesAtLeast(t, n) ==
  IF IsNegativeText(t) THEN Magnitude(t) = 0 /\ n = 0 ELSE Magnitude(t) >= n

\* an integer that parse::<usize>() refuses: negative, or above usize::MAX
RefusedInteger(t) == IsNegativeText(t) \/ (IsUnsignedText(t) /\ ~FitsUsize(t))

(***************************************************************************)
(* C4, as claimed: insertion never rejects an integer position; every      *)
(* integer p (negative, zero, in range, past the end) inserts v, p <= 0 at *)
(* the front and p >= length at the back.                                  *)
(***************************************************************************)
C4_AnyIntegerInserts ==
  (variant = "ll" /\ AddDone /\ IsIntegerText(Typed))
  => /\ Len(fruit) = Len(prev) + 1
     /\ ~HasEv("invalid_position")
     /\ DenotesAtMostZero(Typed) => fruit = <<fruit_name>> \o prev
     /\ DenotesAtLeast(Typed, Len(prev)) => fruit = prev \o <<fruit_name>>

(***************************************************************************)
(* C4, amended: insertion never rejects a position written as an unsigned  *)
(* integer 0 <= p <= usize::MAX: it inserts v, p = 0 at the front and      *)
(* p >= length at the back, with no error and no out-of-bounds split; a    *)
(* negative position, or one above usize::MAX, is rejected as invalid and  *)
(* leaves the sequence unchanged.                                          *)
(***************************************************************************)
C4_UnsignedPositionsInsert ==
  /\ (variant = "ll" /\ op = "add") => ~HasEv("panic_split_off")
  /\ (variant = "ll" /\ AddDone /\ FitsUsize(Typed))
     => /\ Len(fruit) = Len(prev) + 1
        /\ ~HasEv("invalid_position")
        /\ Len(EvsOf(AddedMsgs)) = 1
        /\ Magnitude(Typed) = 0 => fruit = <<fruit_name>> \o prev
        /\ Magnitude(Typed) >= Len(prev) => fruit = prev \o <<fruit_name>>
  /\ (variant = "ll" /\ AddDone /\ RefusedInteger(Typed))
     => /\ fruit = prev
        /\ HasEv("invalid_position")
        /\ EvsOf(AddedMsgs) = <<>>

\* usize::MAX typed in front of a list of four: the name goes to the back
C4_Witness ==
  /\ variant = "ll"
  /\ AddDone
  /\ Typed = UsizeMaxDigits
  /\ Len(prev) = 4
  /\ fruit = prev \o <<fruit_name>>

(***************************************************************************)
(* C5, as claimed: removal on a non-empty sequence succeeds for every      *)
(* integer position: negative or zero removes the front, a position        *)
(* >= length - 1 removes the back, and no request is rejected.             *)
(***************************************************************************)
C5_AnyIntegerRemoves ==
  (variant = "ll" /\ RemoveDone /\ prev # <<>> /\ IsIntegerText(Typed))
  => LET reported == EvsOf(RemovedMsgs) IN
     /\ Len(fruit) = Len(prev) - 1
     /\ ~HasEv("invalid_position")
     /\ Len(reported) = 1
     /\ DenotesAtMostZero(Typed)
        => reported[1].name = Head(prev) /\ fruit = Tail(prev)
     /\ DenotesAtLeast(Typed, Len(prev) - 1)
        => /\ reported[1].name = prev[Len(prev)]
           /\ fruit = SubSeq(prev, 1, Len(prev) - 1)

(***************************************************************************)
(* C5, amended: removal on a non-empty sequence succeeds for every         *)
(* position written as an unsigned integer 0 <= p <= usize::MAX: 0 removes *)
(* the front, a position >= length - 1 removes the back, and no index      *)
(* causes an out-of-bounds failure; a negative position, or one above      *)
(* usize::MAX, is rejected as invalid and leaves the sequence unchanged.   *)
(***************************************************************************)
C5_UnsignedPositionsRemove ==
  /\ (variant = "ll" /\ op = "remove") => ~HasEv("panic_split_off")
  /\ (variant = "ll" /\ RemoveDone /\ prev # <<>> /\ FitsUsize(Typed))
     => LET reported == EvsOf(RemovedMsgs) IN
        /\ Len(fruit) = Len(prev) - 1
        /\ ~HasEv("invalid_position")
        /\ Len(reported) = 1
        /\ Magnitude(Typed) = 0
           => reported[1].name = Head(prev) /\ fruit = Tail(prev)
        /\ Magnitude(Typed) >= Len(prev) - 1
           => /\ reported[1].name = prev[Len(prev)]
              /\ fruit = SubSeq(prev, 1, Len(prev) - 1)
  /\ (variant = "ll" /\ RemoveDone /\ prev # <<>> /\ RefusedInteger(Typed))
     => /\ fruit = prev
        /\ HasEv("invalid_position")
        /\ EvsOf(RemovedMsgs) = <<>>

\* usize::MAX typed in front of a list of four: the last element is removed
C5_Witness ==
  /\ variant = "ll"
  /\ RemoveDone
  /\ Typed = UsizeMaxDigits
  /\ Len(prev) = 4
  /\ HasEv("removed_back")

(***************************************************************************)
(* C6: round trip.  For every sequence s, the empty one included, and      *)
(* every value v, adding v at the front (position 0) and then removing at  *)
(* the front reports v as removed and leaves the sequence equal to s.      *)
(***************************************************************************)
C6_RoundTrip ==
  rt.phase = "removed"
  => LET reported == EvsOf(RemovedMsgs) IN
     /\ pc = "menu"
     /\ fruit = rt.s
     /\ Len(fruit) = Len(rt.s)
     /\ Len(reported) = 1
     /\ reported[1].name = rt.v

C6_Witness ==
  /\ rt.phase = "removed"
  /\ variant = "ll"
  /\ Len(rt.s) = 3
  /\ HasEv("removed_front")

\* the round trip on the empty sequence
C6_WitnessEmpty == rt.phase = "removed" /\ rt.s = <<>> /\ fruit = <<>>

(***************************************************************************)
(* C7: the shuffle preserves the multiset of elements: whatever indices    *)
(* the randomness source draws, the sequence afterwards has the same       *)
(* length and the same elements with the same multiplicities; on a         *)
(* sequence of 0 or 1 elements it changes nothing.                         *)
(***************************************************************************)
Count(q, x) == Cardinality({i \in 1..Len(q) : q[i] = x})

Elements(q) == {q[i] : i \in 1..Len(q)}

C7_ShufflePreservesMultiset ==
  pc = "shuffled"
  => /\ Len(fruit) = Len(prev)
     /\ \A x \in Elements(prev) \cup Elements(fruit) : Count(fruit, x) = Count(prev, x)
     /\ Len(prev) <= 1 => fruit = prev

\* a shuffle that moved elements of a sequence holding a fruit twice
C7_Witness ==
  /\ pc = "shuffled"
  /\ Len(prev) = 4
  /\ Count(prev, Arbutus) = 2
  /\ fruit # prev

(***************************************************************************)
(* C8: pick-random never mutates the sequence: whichever index is drawn,   *)
(* length and order after the pick are those before it, and on a non-empty *)
(* sequence the reported element is one that is in the sequence.           *)
(***************************************************************************)
C8_PickDoesNotMutate ==
  op = "pick"
  => /\ pc = "menu"
     /\ fruit = prev
     /\ Len(fruit) = Len(prev)
     /\ prev # <<>>
        => LET picked == EvsOf({"picked"}) IN
           /\ Len(picked) = 1
           /\ picked[1].name \in Elements(fruit)

C8_Witness ==
  /\ op = "pick"
  /\ Len(prev) = 4
  /\ EvsOf({"picked"}) # <<>>
  /\ EvsOf({"picked"})[1].name = fruit[3]

(***************************************************************************)
(* C9: invalid numeric input is a no-op: when the text entered for a       *)
(* position (an end, in the deque demo) in add or remove does not parse as *)
(* one, the sequence is left as it was, the invalid message and the        *)
(* display are what is printed, and control is at the menu.                *)
(***************************************************************************)
\* the read_line of the step failed: no text was entered
ReadFailed == out # <<>> /\ out[Len(out)].msg = "panic_read"

\* the text is no position of the list / no end of the deque
NotAPosition(v, line) ==
  IF v = "ll" THEN ~FitsUsize(Trim(line)) ELSE Trim(line) \notin {<<"1">>, <<"2">>}

InvalidMsg(v) == IF v = "ll" THEN "invalid_position" ELSE "invalid_choice"

C9_InvalidPositionIsNoOp ==
  [][(/\ pc \in {"add_pos", "rem_pos"}
      /\ ~ReadFailed'
      /\ NotAPosition(variant, choice'))
     => (/\ fruit' = fruit
         /\ pc' = "menu"
         /\ out' = out \o <<Msg(InvalidMsg(variant))>>
                       \o print_fruit_salad(fruit, variant))]_vars

C9_Witness ==
  /\ variant = "ll"
  /\ AddDone
  /\ Typed = <<"x">>
  /\ fruit = prev
  /\ HasEv("invalid_position")

(***************************************************************************)
(* C10, as claimed: no operation can terminate the process: whatever       *)
(* happens inside an add, remove or pick-random step, a failing console    *)
(* read or write included, a process abort is never reached from inside    *)
(* the operation.                                                          *)
(***************************************************************************)
C10_NoAbortInsideOperation ==
  ~(pc = "panicked" /\ op \in {"add", "remove", "pick"})

(***************************************************************************)
(* C11: the two demos, run on the same contents                            *)
(***************************************************************************)
\* the request was carried out: nothing was reported invalid
Accepted(evs) ==
  \A i \in 1..Len(evs) : evs[i].msg \notin {"invalid_position", "invalid_choice"}

PairStepped == pc = "paired" /\ op \in {"add", "remove"}

\* the list demo was asked for the front and the deque demo for its end "1"
PairFront ==
  FitsUsize(Typed) /\ Magnitude(Typed) = 0 /\ Trim(deque_choice) = <<"1">>

\* the list demo was asked for a position it sends to the back and the deque
\* demo for its end "2"
PairBack ==
  /\ FitsUsize(Typed)
  /\ Magnitude(Typed) > 0
  /\ Magnitude(Typed) >= (IF op = "add" THEN Len(prev) ELSE Len(prev) - 1)
  /\ Trim(deque_choice) = <<"2">>

\* neither demo was given a text it takes
PairNeither == ~FitsUsize(Typed) /\ Trim(deque_choice) \notin {<<"1">>, <<"2">>}

\* C11 as stated: the linked-list demo and the deque demo follow one contract,
\* so from the same contents the same request is accepted by both or by
\* neither and leaves the same sequence in both.
C11_SameRequestSameResult ==
  (PairStepped /\ choice = deque_choice)
    => (fruit = deque /\ (Accepted(out) <=> Accepted(deque_out)))

\* C11 amended: the two demos agree on requests for an end.  From the same
\* contents, a front request (position 0 of the list, end 1 of the deque), a
\* back request (a position the list sends to the back, end 2 of the deque)
\* and a text neither takes are accepted alike, leave the same sequence in
\* both, and for an accepted request both report the same thing.
C11_EndRequestsAgree ==
  (PairStepped /\ (PairFront \/ PairBack \/ PairNeither))
    => /\ fruit = deque
       /\ Accepted(out) <=> Accepted(deque_out)
       /\ Accepted(out) => out = deque_out
       /\ Accepted(out) <=> ~PairNeither

C11_Witness ==
  /\ PairStepped
  /\ op = "add"
  /\ PairFront
  /\ Len(prev) = 2
  /\ fruit = <<fruit_name>> \o prev
  /\ deque = fruit

C11_WitnessBack ==
  /\ PairStepped
  /\ op = "remove"
  /\ PairBack
  /\ Len(prev) = 3
  /\ Magnitude(Typed) = 2
  /\ deque = SubSeq(prev, 1, 2)
  /\ deque = fruit

(***************************************************************************)
(* C12, C13: the sequence when the menu first appears, and the deque's ends *)
(***************************************************************************)
\* q holds each of the three initial fruits once, in some order
PermutationOfInitial(q) ==
  /\ Len(q) = 3
  /\ Elements(q) = {Arbutus, Loquat, StrawberryTreeBerry}

\* main has reached the menu loop and nothing has been requested yet
MenuFirstShown == pc = "menu" /\ op = "startup"

\* C12 as stated: in the linked-list demo Pomegranate, Fig and Cherry are all
\* added to the end, so when the menu first appears the list is a permutation
\* of the three initial fruits followed by Pomegranate, Fig, Cherry.
C12_AllThreeAtEnd ==
  (variant = "ll" /\ MenuFirstShown)
    => /\ Len(fruit) = 6
       /\ PermutationOfInitial(SubSeq(fruit, 1, 3))
       /\ SubSeq(fruit, 4, 6) = <<Pomegranate, Fig, Cherry>>

\* C13: in the deque demo the startup leaves Pomegranate at the front and Fig,
\* Cherry at the back around a permutation of the three initial fruits; after
\* that an add or remove with end 1 acts on the front, with end 2 on the back,
\* any other end leaves the queue as it was, the elements that stay keep their
\* order, and no other menu request changes the queue.
C13_DequeEndsOnly ==
  variant = "vd"
  => /\ MenuFirstShown
          => /\ Len(fruit) = 6
             /\ Head(fruit) = Pomegranate
             /\ PermutationOfInitial(SubSeq(fruit, 2, 4))
             /\ SubSeq(fruit, 5, 6) = <<Fig, Cherry>>
     /\ AddDone
          => fruit = IF Typed = <<"1">> THEN <<fruit_name>> \o prev
                     ELSE IF Typed = <<"2">> THEN prev \o <<fruit_name>>
                     ELSE prev
     /\ RemoveDone
          => fruit = IF Typed = <<"1">> THEN Tail(prev)
                     ELSE IF Typed = <<"2">> THEN SubSeq(prev, 1, Len(prev) - 1)
                     ELSE prev
     /\ (pc \in {"menu", "exited"} /\ op \in {"pick", "invalid", "exit"})
          => fruit = prev

\* the deque as the startup left it lost its back element to end 2
C13_Witness ==
  /\ variant = "vd"
  /\ RemoveDone
  /\ Typed = <<"2">>
  /\ Len(prev) = 6
  /\ Head(prev) = Pomegranate
  /\ prev[6] = Cherry
  /\ fruit = SubSeq(prev, 1, 5)

\* an end that is neither 1 nor 2 left the deque unchanged
C13_WitnessOtherEnd ==
  /\ variant = "vd"
  /\ AddDone
  /\ Typed = <<"0">>
  /\ fruit = prev
  /\ Len(fruit) = 5

(***************************************************************************)
(* C14: what a display shows                                               *)
(***************************************************************************)
DisplayMsgs == {"salad_header", "empty_marker", "item_comma", "item_last", "total"}

\* the lines of the display in what was printed since the last menu
Displayed == EvsOf(DisplayMsgs)

\* the names a display shows, in the order shown
DisplayedNames ==
  LET items == EvsOf({"item_comma", "item_last"})
  IN [i \in 1..Len(items) |-> items[i].name]

\* C14 as stated: every display, in both demos, shows the elements front to
\* back followed by a count equal to the current length when the sequence is
\* not empty, shows the "(empty)" marker and nothing else exactly when the
\* length is 0, and does not change the sequence.
C14_DisplayWithCount ==
  HasEv("salad_header")
  => /\ Head(Displayed).msg = "salad_header"
     /\ DisplayedNames = fruit
     /\ HasEv("empty_marker") <=> Len(fruit) = 0
     /\ Len(fruit) = 0 => Len(Displayed) = 2
     /\ Len(fruit) > 0
          => /\ Len(Displayed) = Len(fruit) + 2
             /\ Displayed[Len(Displayed)] = Ev("total", <<>>, Len(fruit))
     /\ op = "exit" => fruit = prev

(***************************************************************************)
(* C15: how a session ends                                                 *)
(***************************************************************************)
\* the process has ended: main returned after the break, or it panicked
Terminated == pc \in {"exited", "panicked"}

\* C15 as stated: the session ends only through the exit choice, that is only
\* when the menu input is exactly 4 after trimming; every other menu input
\* returns to the menu and leaves the sequence unchanged unless it dispatches
\* add or remove; the final display shows the sequence as last modified.
C15_EndsOnlyThroughExit ==
  /\ Terminated => (pc = "exited" /\ op = "exit" /\ Trim(choice) = <<"4">>)
  /\ op = "exit" => (pc = "exited" /\ fruit = prev /\ DisplayedNames = fruit)
  /\ op = "invalid"
       => /\ pc = "menu"
          /\ fruit = prev
          /\ Trim(choice) \notin {<<"1">>, <<"2">>, <<"3">>, <<"4">>}
  /\ op = "pick" => fruit = prev

(***************************************************************************)
(* C16: an empty fruit name                                                *)
(***************************************************************************)
\* C16: an add whose name is empty after trimming is refused before any
\* position or end is asked for: the sequence is as it was and control is back
\* at the menu; an add that asks for a position has a non-empty name, and no
\* element of the sequence is the empty string.
C16_EmptyNameRejected ==
  /\ HasEv("name_empty")
       => /\ pc = "menu"
          /\ op = "add"
          /\ fruit_name = <<>>
          /\ fruit = prev
          /\ out = <<Msg("menu"), Msg("add_header"), Msg("prompt_name"),
                     Msg("name_empty")>>
  /\ (op = "add" /\ HasEv("prompt_position")) => fruit_name # <<>>
  /\ AddDone => fruit_name # <<>>
  /\ \A i \in 1..Len(fruit) : fruit[i] # <<>>

\* a name of white space only was refused with fruits in the salad
C16_Witness ==
  /\ HasEv("name_empty")
  /\ fruit_name = <<>>
  /\ Len(fruit) = 5
  /\ pc = "menu"

(***************************************************************************)
(* C17: the split index of the linked-list demo                            *)
(***************************************************************************)
\* every report of one kind in what was printed has its position strictly
\* between lo and hi
ReportedBetween(m, lo, hi) ==
  \A i \in 1..Len(out) : out[i].msg = m => (lo < out[i].pos /\ out[i].pos < hi)

\* C17: in the linked-list demo the split branch of add is reached only with
\* 0 < position < length and the split branch of remove only with
\* 0 < position < length - 1, so only for lengths of 3 and more; the back half
\* of the split is never empty in remove, so a remove with a position always
\* removes exactly one element; length - 1 is never computed on an empty list;
\* no out-of-bounds split and no unsigned underflow is ever reached.
C17_SplitIndexInside ==
  variant = "ll"
  => /\ ~HasEv("panic_split_off")
     /\ ~HasEv("panic_underflow")
     /\ pc # "diverged"
     /\ pc = "rem_pos" => ~LenMinusOneOverflows(fruit)
     /\ op = "add" => ReportedBetween("added_at", 0, Len(prev))
     /\ op = "remove"
          => /\ ReportedBetween("removed_at", 0, Len(prev) - 1)
             /\ HasEv("removed_at") => Len(prev) >= 3
     /\ (AddDone /\ FitsUsize(Typed)
           /\ 0 < Magnitude(Typed) /\ Magnitude(Typed) < Len(prev))
          => EvsOf(AddedMsgs) = <<Ev("added_at", fruit_name, Magnitude(Typed))>>
     /\ (RemoveDone /\ FitsUsize(Typed))
          => /\ Len(EvsOf(RemovedMsgs)) = 1
             /\ Len(fruit) = Len(prev) - 1
     /\ (RemoveDone /\ FitsUsize(Typed)
           /\ 0 < Magnitude(Typed) /\ Magnitude(Typed) < Len(prev) - 1)
          => EvsOf(RemovedMsgs)
               = <<Ev("removed_at", prev[Magnitude(Typed) + 1], Magnitude(Typed))>>

\* the split branch of remove at the last position it can take in a list of
\* three, and the back of the list left in place
C17_Witness ==
  /\ variant = "ll"
  /\ RemoveDone
  /\ Len(prev) = 3
  /\ HasEv("removed_at")
  /\ Magnitude(Typed) = 1
  /\ fruit = <<prev[1], prev[3]>>

\* the last position of a list of six goes to the back, not to the split
C17_WitnessBackBoundary ==
  /\ variant = "ll"
  /\ RemoveDone
  /\ Len(prev) = 6
  /\ FitsUsize(Typed)
  /\ Magnitude(Typed) = 5
  /\ HasEv("removed_back")

\* the split branch of add at the last position it can take
C17_WitnessAdd ==
  /\ variant = "ll"
  /\ AddDone
  /\ Len(prev) = 5
  /\ FitsUsize(Typed)
  /\ Magnitude(Typed) = 4
  /\ HasEv("added_at")
  /\ fruit = SubSeq(prev, 1, 4) \o <<fruit_name>> \o SubSeq(prev, 5, 5)

====
